---- MODULE Spec2Model ----
(***************************************************************************)
(* Model of wpscan.py: the rotation store (save_accounts, load_accounts,   *)
(* save_account_index), the rotation runner (run_wpscan_command), the     *)
(* provisioning batch (create_accounts with its activation polling loop)   *)
(* and the username generator (get_random_email_usernames).                *)
(*                                                                         *)
(* The accounts file is modelled as a sequence of JSON lexemes, so that    *)
(* json.dumps / json.load are a real encoder and a real parser: an empty,  *)
(* truncated or foreign file fails to parse, a JSON document that is not   *)
(* an object parses to a value that has no .get().                         *)
(***************************************************************************)
EXTENDS Integers, Sequences, FiniteSets, TLC

(* ---------------- bounds of the model ---------------- *)
MaxAccounts == 3        \* longest account list in an initial store
MaxBelow == 3           \* how far below zero an index in an initial store / an integer
                        \* passed to a call goes
MaxIdx == 4             \* largest index found in an initial store / passed to a call
MaxCount == 2           \* largest --count of a provisioning run
MaxLen == 2             \* largest username length bound passed to the generator
NumProcs == 2           \* rotation invocations (process runs) that exist

(* ---------------- program constants ---------------- *)
INITIAL_TRIES == 5      \* tries = 5
RESET_INDEX == -1       \* "index": -1 written by save_accounts
DEFAULT_INDEX == -1     \* data.get("index", -1) and the except branch

Procs == 1..NumProcs
IdxRange == (0 - MaxBelow)..MaxIdx

(* ---------------- accounts ---------------- *)
\* an account dict {"email": ..., "password": ..., "api": ...}; names, passwords and
\* tokens are random strings the program never compares or inspects, so the password
\* and the token that belong to the identity named u are written u as well
Account(u, d, p, t) == [email |-> <<u, d>>, password |-> p, api |-> t]
NoAccount == Account(0, 0, 0, 0)
\* the accounts an initial store may hold
SampleAccounts == [u \in 1..MaxAccounts |-> Account(u, 1, u, u)]
SampleList(k) == SubSeq(SampleAccounts, 1, k)

(* ---------------- python values read from / written to the file -------- *)
\* a dict whose keys (in insertion order) are among "index" and "accounts"
PyDict(order, index, accounts) ==
    [ty |-> "dict", order |-> order, index |-> index, accounts |-> accounts]
\* a top-level JSON array
PyList(elems) == [ty |-> "list", order |-> <<>>, index |-> 0, accounts |-> elems]
\* a top-level JSON number
PyInt(n) == [ty |-> "int", order |-> <<>>, index |-> n, accounts |-> <<>>]
PyNone == [ty |-> "none", order |-> <<>>, index |-> 0, accounts |-> <<>>]

HasKey(d, k) == \E i \in 1..Len(d.order) : d.order[i] = k

(* ---------------- JSON lexemes ---------------- *)
Tok(t, n, a) == [t |-> t, n |-> n, a |-> a]
LBRACE == Tok("{", 0, NoAccount)
RBRACE == Tok("}", 0, NoAccount)
LBRACK == Tok("[", 0, NoAccount)
RBRACK == Tok("]", 0, NoAccount)
KeyIndex == Tok("\"index\":", 0, NoAccount)
KeyAccounts == Tok("\"accounts\":", 0, NoAccount)
IntTok(n) == Tok("int", n, NoAccount)
ObjTok(a) == Tok("obj", 0, a)
JunkTok == Tok("junk", 0, NoAccount)

\* the encoding of a list of account dicts, without its brackets
RECURSIVE EncodeElems(_)
EncodeElems(s) ==
    IF s = <<>> THEN <<>> ELSE <<ObjTok(Head(s))>> \o EncodeElems(Tail(s))

\* the members of a dict, in insertion order
RECURSIVE EncodeMembers(_, _)
EncodeMembers(d, order) ==
    IF order = <<>> THEN <<>>
    ELSE (IF Head(order) = "index"
          THEN <<KeyIndex, IntTok(d.index)>>
          ELSE <<KeyAccounts, LBRACK>> \o EncodeElems(d.accounts) \o <<RBRACK>>)
         \o EncodeMembers(d, Tail(order))

\* json.dumps / json.dump
json_dumps(v) ==
    IF v.ty = "int" THEN <<IntTok(v.index)>>
    ELSE IF v.ty = "list" THEN <<LBRACK>> \o EncodeElems(v.accounts) \o <<RBRACK>>
    ELSE <<LBRACE>> \o EncodeMembers(v, v.order) \o <<RBRACE>>

ParseError == [ok |-> FALSE, val |-> PyNone]
Parsed(v) == [ok |-> TRUE, val |-> v]

\* the account dicts of a run of object lexemes
RECURSIVE DecodeElems(_)
DecodeElems(s) ==
    IF s = <<>> THEN <<>> ELSE <<Head(s).a>> \o DecodeElems(Tail(s))

AllObjs(s) == \A i \in 1..Len(s) : s[i].t = "obj"

\* position of the first "]" in s, 0 when there is none
FirstRBrack(s) ==
    IF \E i \in 1..Len(s) : s[i] = RBRACK
    THEN CHOOSE i \in 1..Len(s) : s[i] = RBRACK /\ \A j \in 1..(i-1) : s[j] # RBRACK
    ELSE 0

\* a dict with key k set: an existing key keeps its place, a new one goes last
SetKeyOrder(order, k) ==
    IF \E i \in 1..Len(order) : order[i] = k THEN order ELSE Append(order, k)

\* the members between the braces of an object; a repeated key keeps the last value
RECURSIVE ParseMembers(_, _)
ParseMembers(s, d) ==
    IF s = <<>> THEN Parsed(d)
    ELSE IF Len(s) >= 2 /\ s[1] = KeyIndex /\ s[2].t = "int"
    THEN ParseMembers(SubSeq(s, 3, Len(s)),
                      [d EXCEPT !.order = SetKeyOrder(d.order, "index"), !.index = s[2].n])
    ELSE IF Len(s) >= 3 /\ s[1] = KeyAccounts /\ s[2] = LBRACK /\ FirstRBrack(s) >= 3
              /\ AllObjs(SubSeq(s, 3, FirstRBrack(s) - 1))
    THEN ParseMembers(SubSeq(s, FirstRBrack(s) + 1, Len(s)),
                      [d EXCEPT !.order = SetKeyOrder(d.order, "accounts"),
                                !.accounts = DecodeElems(SubSeq(s, 3, FirstRBrack(s) - 1))])
    ELSE ParseError

\* json.load: raises JSONDecodeError (ok = FALSE) on anything that is not one document
json_load(s) ==
    IF Len(s) = 1 /\ s[1].t = "int" THEN Parsed(PyInt(s[1].n))
    ELSE IF Len(s) >= 2 /\ s[1] = LBRACK /\ s[Len(s)] = RBRACK
              /\ AllObjs(SubSeq(s, 2, Len(s) - 1))
    THEN Parsed(PyList(DecodeElems(SubSeq(s, 2, Len(s) - 1))))
    ELSE IF Len(s) >= 2 /\ s[1] = LBRACE /\ s[Len(s)] = RBRACE
    THEN ParseMembers(SubSeq(s, 2, Len(s) - 1), PyDict(<<>>, 0, <<>>))
    ELSE ParseError

(* ---------------- the file ---------------- *)
MissingFile == [exists |-> FALSE, content |-> <<>>]
FileWith(toks) == [exists |-> TRUE, content |-> toks]

\* save_accounts that starts the rotation at the first account instead of before it
save_accounts_from_zero(accounts) ==
    [exists |-> TRUE,
     content |-> json_dumps(PyDict(<<"index", "accounts">>, 0, accounts))]

\* save_accounts: open(filename, "w+") and write the dump of {"index": -1, "accounts": accounts}
save_accounts(accounts) ==
    FileWith(json_dumps(PyDict(<<"index", "accounts">>, RESET_INDEX, accounts)))

\* dict.get(key, default) for the two keys the program reads
GetAccounts(d) == IF HasKey(d, "accounts") THEN d.accounts ELSE <<>>
GetIndex(d) == IF HasKey(d, "index") THEN d.index ELSE DEFAULT_INDEX

LoadResult(raised, accounts, index) ==
    [raised |-> raised, accounts |-> accounts, index |-> index]

\* load_accounts: FileNotFoundError and JSONDecodeError are caught; calling .get on
\* a value that is not a dict raises AttributeError, which is not
load_accounts(f) ==
    LET data == json_load(f.content) IN
    IF ~f.exists THEN LoadResult("none", <<>>, DEFAULT_INDEX)
    ELSE IF ~data.ok THEN LoadResult("none", <<>>, DEFAULT_INDEX)
    ELSE IF data.val.ty # "dict" THEN LoadResult("AttributeError", <<>>, 0)
    ELSE LoadResult("none", GetAccounts(data.val), GetIndex(data.val))

\* an item assignment that is lost: the dict keeps its old index
SetIndex_lost(d, index) == d

\* a fresh dict instead of an item assignment: the other keys are dropped
SetIndex_fresh(d, index) == PyDict(<<"index">>, index, <<>>)

\* data["index"] = index
SetIndex(d, index) == [d EXCEPT !.order = SetKeyOrder(d.order, "index"), !.index = index]

\* the first half of save_account_index: open(filepath, 'r'), json.load, data["index"] = index
\*   "pass"      FileNotFoundError / JSONDecodeError swallowed
\*   "TypeError" item assignment on a value that is not a dict
\*   "write"     data is ready to be written
save_account_index_read(f, index) ==
    LET data == json_load(f.content) IN
    IF ~f.exists \/ ~data.ok THEN [out |-> "pass", data |-> PyNone]
    ELSE IF data.val.ty # "dict" THEN [out |-> "TypeError", data |-> PyNone]
    ELSE [out |-> "write", data |-> SetIndex(data.val, index)]

\* open(filepath, 'w') truncates the file
Truncated == FileWith(<<>>)

\* save_account_index as one call: the file afterwards and the exception raised
save_account_index(f, index) ==
    LET r == save_account_index_read(f, index) IN
    IF r.out = "write" THEN [file |-> FileWith(json_dumps(r.data)), raised |-> "none"]
    ELSE IF r.out = "TypeError" THEN [file |-> f, raised |-> "TypeError"]
    ELSE [file |-> f, raised |-> "none"]

\* the remainder that takes the sign of the dividend, as C's % does
NextIndex_truncated(current_index, k) ==
    IF current_index + 1 >= 0 THEN (current_index + 1) % k
    ELSE 0 - ((0 - (current_index + 1)) % k)

\* next_index = (current_index + 1) % len(accounts)
NextIndex(current_index, k) == (current_index + 1) % k

\* accounts[i]: positions count from 0, a negative i counts from the end, anything
\* else raises IndexError
PyInRange(s, i) == i < Len(s) /\ -i <= Len(s)
PyGetItem(s, i) == IF i >= 0 THEN s[i + 1] ELSE s[Len(s) + i + 1]

(* ---------------- state ---------------- *)
VARIABLES
    file,     \* the accounts file: whether it exists and its lexemes
    run,      \* run[p]: position and locals of rotation invocation p
    b,        \* position and locals of the provisioning run (main / create_accounts)
    call,     \* the store call or invocation that completed last and its outcome,
              \* cleared when the next invocation begins
    window,   \* the most recent rotation invocations that followed one another with
              \* no other invocation and no other write of the store in between
    gen       \* position and locals of a call of get_random_email_usernames

vars == <<file, run, b, call, window, gen>>

\* locals of run_wpscan_command (and of the save_account_index it calls); overlap
\* records whether another invocation was running at some point of this one
RunIdle == [pc |-> "idle", accounts |-> <<>>, current_index |-> 0, next_index |-> 0,
            account |-> NoAccount, data |-> PyNone, overlap |-> FALSE]

\* no call has completed yet
NoCall == [op |-> "none", before |-> MissingFile, index |-> 0, accounts |-> <<>>,
           raised |-> "none", out |-> "none"]
CallRec(op, before, index, accounts, raised, out) ==
    [op |-> op, before |-> before, index |-> index, accounts |-> accounts,
     raised |-> raised, out |-> out]

WindowCap == IF MaxAccounts > MaxCount THEN MaxAccounts ELSE MaxCount
\* s with e appended, cut to its last WindowCap entries
Slide(s, e) ==
    IF Len(s) < WindowCap THEN Append(s, e) ELSE Append(Tail(s), e)

(* ---------------- run_wpscan_command ---------------- *)
ToolOutcomes == {"exit_zero", "exit_nonzero", "exception"}

\* no invocation of main is in progress
RunsIdle == \A p \in Procs : run[p].pc = "idle"

\* invocation p begins: the invocations running at that moment are overlapped
MarkOverlap(p) ==
    [q \in Procs |-> IF q = p \/ run[q].pc = "idle" THEN run[q]
                     ELSE [run[q] EXCEPT !.overlap = TRUE]]

\* accounts, current_index = load_accounts(accounts_file); the empty check;
\* next_index and account
RunLoadStep(p) ==
    LET r == load_accounts(file)
        n == NextIndex(r.index, Len(r.accounts))
    IN
    /\ run[p].pc = "idle"
    /\ IF r.raised # "none"
       THEN /\ run' = MarkOverlap(p)
            /\ call' = CallRec("run_wpscan_command", file, 0, <<>>, r.raised, "traceback")
            /\ window' = <<>>
       ELSE IF r.accounts = <<>>
       THEN /\ run' = MarkOverlap(p)
            /\ call' = CallRec("run_wpscan_command", file, 0, <<>>, "none", "no_accounts")
            /\ window' = window
       ELSE IF ~PyInRange(r.accounts, n)
       THEN /\ run' = MarkOverlap(p)
            /\ call' = CallRec("run_wpscan_command", file, n, r.accounts, "IndexError",
                               "traceback")
            /\ window' = <<>>
       ELSE /\ run' = [q \in Procs |->
                        IF q = p
                        THEN [pc |-> "save_read",
                              accounts |-> r.accounts,
                              current_index |-> r.index,
                              next_index |-> n,
                              account |-> PyGetItem(r.accounts, n),
                              data |-> PyNone,
                              overlap |-> ~RunsIdle]
                        ELSE MarkOverlap(p)[q]]
            /\ call' = NoCall
            /\ window' = window
    /\ UNCHANGED <<gen, file, b>>

\* save_account_index(accounts_file, current_index + 1): the index saved is not wrapped
RunSaveReadStep_unwrapped(p) ==
    LET r == save_account_index_read(file, run[p].current_index + 1) IN
    /\ run[p].pc = "save_read"
    /\ IF r.out = "write"
       THEN /\ run' = [run EXCEPT ![p].pc = "save_open", ![p].data = r.data]
            /\ call' = call
       ELSE IF r.out = "pass"
       THEN /\ run' = [run EXCEPT ![p].pc = "tool"]
            /\ call' = call
       ELSE /\ run' = [run EXCEPT ![p] = RunIdle]
            /\ call' = CallRec("run_wpscan_command", file, run[p].next_index,
                               run[p].accounts, r.out, "traceback")
    /\ UNCHANGED <<gen, file, b, window>>

\* save_account_index(accounts_file, next_index): the read, parse and item assignment
RunSaveReadStep(p) ==
    LET r == save_account_index_read(file, run[p].next_index) IN
    /\ run[p].pc = "save_read"
    /\ IF r.out = "write"
       THEN /\ run' = [run EXCEPT ![p].pc = "save_open", ![p].data = r.data]
            /\ call' = call
       ELSE IF r.out = "pass"
       THEN /\ run' = [run EXCEPT ![p].pc = "tool"]
            /\ call' = call
       ELSE /\ run' = [run EXCEPT ![p] = RunIdle]
            /\ call' = CallRec("run_wpscan_command", file, run[p].next_index,
                               run[p].accounts, r.out, "traceback")
    /\ UNCHANGED <<gen, file, b, window>>

\* save_account_index: open(filepath, 'w')
RunSaveOpenStep(p) ==
    /\ run[p].pc = "save_open"
    /\ file' = Truncated
    /\ run' = [run EXCEPT ![p].pc = "save_dump"]
    /\ UNCHANGED <<gen, b, call, window>>

\* save_account_index: json.dump(data, file)
RunSaveDumpStep(p) ==
    /\ run[p].pc = "save_dump"
    /\ file' = FileWith(json_dumps(run[p].data))
    /\ run' = [run EXCEPT ![p].pc = "tool"]
    /\ UNCHANGED <<gen, b, call, window>>

\* a runner that puts the old index back when the subprocess raises
RunToolStep_rollback(p, outcome) ==
    /\ run[p].pc = "tool"
    /\ run' = [run EXCEPT ![p] = RunIdle]
    /\ call' = CallRec("run_wpscan_command", file, run[p].next_index, run[p].accounts,
                       "none", outcome)
    /\ window' = Slide(window, [before |-> run[p].current_index,
                                k |-> Len(run[p].accounts),
                                sel |-> run[p].next_index,
                                account |-> run[p].account,
                                tool |-> outcome,
                                overlap |-> run[p].overlap])
    /\ file' = IF outcome = "exception"
               THEN save_account_index(file, run[p].current_index).file
               ELSE file
    /\ UNCHANGED <<gen, b>>

\* the subprocess: it ends, or Popen raises and the exception is printed; then return
RunToolStep(p, outcome) ==
    /\ run[p].pc = "tool"
    /\ run' = [run EXCEPT ![p] = RunIdle]
    /\ call' = CallRec("run_wpscan_command", file, run[p].next_index, run[p].accounts,
                       "none", outcome)
    /\ window' = Slide(window, [before |-> run[p].current_index,
                                k |-> Len(run[p].accounts),
                                sel |-> run[p].next_index,
                                account |-> run[p].account,
                                tool |-> outcome,
                                overlap |-> run[p].overlap])
    /\ UNCHANGED <<gen, file, b>>

\* one step of rotation invocation p; an invocation starts only when no other
\* invocation of the program is running
RunStep(p) ==
    \/ /\ RunsIdle
       /\ b.pc = "idle"
       /\ RunLoadStep(p)
    \/ RunSaveReadStep(p)
    \/ RunSaveOpenStep(p)
    \/ RunSaveDumpStep(p)
    \/ \E outcome \in ToolOutcomes : RunToolStep(p, outcome)

(* ---------------- the store functions called on their own ---------------- *)
KeyOrders == {<<"index", "accounts">>, <<"accounts", "index">>, <<"index">>,
              <<"accounts">>, <<>>}

\* the file contents a call may find
FileInputs ==
    {MissingFile, Truncated, FileWith(<<JunkTok>>),
     FileWith(json_dumps(PyList(<<>>))), FileWith(json_dumps(PyInt(0)))}
    \cup {FileWith(json_dumps(PyDict(o, i, SampleList(k)))) :
            o \in KeyOrders, i \in IdxRange, k \in 0..MaxAccounts}
    \cup {FileWith(SubSeq(save_accounts(SampleList(1)).content, 1, n)) : n \in 1..5}

CallLoad ==
    /\ call' = LET r == load_accounts(file) IN
               CallRec("load_accounts", file, r.index, r.accounts, r.raised, "none")
    /\ UNCHANGED <<gen, file, run, b, window>>

CallSaveAccounts(accts) ==
    /\ file' = save_accounts(accts)
    /\ call' = CallRec("save_accounts", file, RESET_INDEX, accts, "none", "none")
    /\ window' = <<>>
    /\ UNCHANGED <<gen, run, b>>

CallSaveAccountIndex(j) ==
    /\ file' = save_account_index(file, j).file
    /\ call' = CallRec("save_account_index", file, j, <<>>,
                       save_account_index(file, j).raised, "none")
    /\ window' = <<>>
    /\ UNCHANGED <<gen, run, b>>

StoreCall ==
    /\ RunsIdle
    /\ \/ CallLoad
       \/ \E k \in 0..MaxAccounts : CallSaveAccounts(SampleList(k))
       \/ \E j \in IdxRange : CallSaveAccountIndex(j)

(* ---------------- create_accounts and the create-account command ---------------- *)
\* locals of create_accounts; act, actLog, calls, nreports and lastReport record
\* what happened:
\*   act         where the activation of the current identity stands
\*   actLog      what each activate_account call of the current identity met
\*   calls       collaborator calls made by the activation of the current identity
\*   nreports    how many failures were shown so far
\*   lastReport  the failure shown for the identity handled last, with its step;
\*               none once the next identity is being registered
\*   steps       the steps of the current identity that have ended, each with how
\*   okIds       the identities whose four steps all ended well
NoCalls == [list |-> 0, fetch |-> 0, confirm |-> 0]
Report(num, step, kind) == [num |-> num, step |-> step, kind |-> kind]
NoReport == Report(0, "none", "none")
BIdle == [pc |-> "idle", count |-> 0, usernames |-> <<>>, passwords |-> <<>>,
          emails |-> <<>>, i |-> 0, tries |-> 0, accounts |-> <<>>, token |-> 0,
          nreports |-> 0, lastReport |-> NoReport,
          act |-> "none", actLog |-> <<>>, calls |-> NoCalls,
          steps |-> <<>>, okIds |-> {}]

\* the steps of create_accounts for one identity, in the order of the code
StepNames == <<"register", "activate", "login", "token">>

\* bb with one more finished step of the current identity and how it ended
Stepped(bb, name, ok) ==
    [bb EXCEPT !.steps = Append(bb.steps, [step |-> name, ok |-> ok])]

\* register, activation, login and token retrieval all ended well
AllStepsOk(steps) ==
    /\ Len(steps) = Len(StepNames)
    /\ \A x \in 1..Len(steps) : steps[x].step = StepNames[x] /\ steps[x].ok

\* what one activate_account call can meet at its collaborators
ActOutcomes == {"list_error", "no_message", "fetch_error", "no_link",
                "confirm_http_error", "confirm_false", "confirm_true"}

\* activate_account that returns False, as for an empty inbox, when the message has no link
activate_account_no_link_false(o) ==
    IF o = "list_error" THEN [ret |-> "Exception", list |-> 1, fetch |-> 0, confirm |-> 0]
    ELSE IF o = "no_message" THEN [ret |-> "False", list |-> 1, fetch |-> 0, confirm |-> 0]
    ELSE IF o = "fetch_error" THEN [ret |-> "Exception", list |-> 1, fetch |-> 1, confirm |-> 0]
    ELSE IF o = "no_link" THEN [ret |-> "False", list |-> 1, fetch |-> 1, confirm |-> 0]
    ELSE IF o = "confirm_http_error"
    THEN [ret |-> "Exception", list |-> 1, fetch |-> 1, confirm |-> 1]
    ELSE IF o = "confirm_false" THEN [ret |-> "False", list |-> 1, fetch |-> 1, confirm |-> 1]
    ELSE [ret |-> "True", list |-> 1, fetch |-> 1, confirm |-> 1]

\* activate_account that raises when the confirm call answers success: false
activate_account_false_raises(o) ==
    IF o = "list_error" THEN [ret |-> "Exception", list |-> 1, fetch |-> 0, confirm |-> 0]
    ELSE IF o = "no_message" THEN [ret |-> "False", list |-> 1, fetch |-> 0, confirm |-> 0]
    ELSE IF o = "fetch_error" THEN [ret |-> "Exception", list |-> 1, fetch |-> 1, confirm |-> 0]
    ELSE IF o = "no_link" THEN [ret |-> "Exception", list |-> 1, fetch |-> 1, confirm |-> 0]
    ELSE IF o = "confirm_http_error"
    THEN [ret |-> "Exception", list |-> 1, fetch |-> 1, confirm |-> 1]
    ELSE IF o = "confirm_false"
    THEN [ret |-> "Exception", list |-> 1, fetch |-> 1, confirm |-> 1]
    ELSE [ret |-> "True", list |-> 1, fetch |-> 1, confirm |-> 1]

\* activate_account: its result and the collaborator calls it makes, given what it meets
activate_account(o) ==
    IF o = "list_error" THEN [ret |-> "Exception", list |-> 1, fetch |-> 0, confirm |-> 0]
    ELSE IF o = "no_message" THEN [ret |-> "False", list |-> 1, fetch |-> 0, confirm |-> 0]
    ELSE IF o = "fetch_error" THEN [ret |-> "Exception", list |-> 1, fetch |-> 1, confirm |-> 0]
    ELSE IF o = "no_link" THEN [ret |-> "Exception", list |-> 1, fetch |-> 1, confirm |-> 0]
    ELSE IF o = "confirm_http_error"
    THEN [ret |-> "Exception", list |-> 1, fetch |-> 1, confirm |-> 1]
    ELSE IF o = "confirm_false" THEN [ret |-> "False", list |-> 1, fetch |-> 1, confirm |-> 1]
    ELSE [ret |-> "True", list |-> 1, fetch |-> 1, confirm |-> 1]

\* "continue", or the end of the for loop
NextIdentity(bb) ==
    LET ids == IF AllStepsOk(bb.steps) THEN bb.okIds \cup {bb.i} ELSE bb.okIds
    IN IF bb.i < bb.count
       THEN [bb EXCEPT !.i = bb.i + 1, !.pc = "register", !.okIds = ids]
       ELSE [bb EXCEPT !.pc = "return", !.okIds = ids]

\* the usernames get_random_email_usernames may return: count distinct names in any order
UsernameLists(count) ==
    {s \in [1..count -> 1..MaxCount] : \A x, y \in 1..count : x # y => s[x] # s[y]}

\* main with the create-account command, up to the first identity of create_accounts:
\* usernames, passwords, get_domains() and random.choice(domains) for every username
BatchStart(count, usernames, domains) ==
    /\ b.pc = "idle"
    /\ RunsIdle
    /\ IF count > 0 /\ domains = <<>>
       THEN /\ b' = BIdle
            /\ call' = CallRec("create_accounts", file, 0, <<>>, "IndexError", "traceback")
       ELSE /\ b' = IF count = 0
                    THEN [BIdle EXCEPT !.pc = "return"]
                    ELSE [BIdle EXCEPT !.pc = "register", !.count = count,
                                       !.usernames = usernames,
                                       !.passwords = [x \in 1..count |-> usernames[x]],
                                       !.emails = [x \in 1..count |-> <<usernames[x], domains[1]>>],
                                       !.i = 1]
            /\ call' = NoCall
    /\ window' = <<>>
    /\ UNCHANGED <<gen, file, run>>

\* wpscan_account.register(); then tries = 5
RegisterStep(ok) ==
    /\ b.pc = "register"
    /\ b' = IF ok
            THEN [b EXCEPT !.pc = "activate", !.tries = INITIAL_TRIES, !.act = "polling",
                           !.actLog = <<>>, !.calls = NoCalls, !.lastReport = NoReport,
                           !.steps = <<[step |-> "register", ok |-> TRUE]>>]
            ELSE NextIdentity([b EXCEPT !.act = "none", !.actLog = <<>>, !.calls = NoCalls,
                                        !.nreports = b.nreports + 1,
                                        !.lastReport = Report(b.i, "register", "error"),
                                        !.steps = <<[step |-> "register", ok |-> FALSE]>>])
    /\ UNCHANGED <<gen, file, run, call, window>>

\* a loop that looks at "tries == 0" before it looks at the result of activate_account
ActivateStep_budget_first(o) ==
    LET r == activate_account(o)
        bb == [b EXCEPT !.tries = b.tries - 1,
                        !.actLog = Append(b.actLog, o),
                        !.calls = [list |-> b.calls.list + r.list,
                                   fetch |-> b.calls.fetch + r.fetch,
                                   confirm |-> b.calls.confirm + r.confirm]]
    IN
    /\ b.pc = "activate"
    /\ b' = IF r.ret = "Exception"
            THEN NextIdentity([Stepped(bb, "activate", FALSE) EXCEPT !.act = "error",
                                         !.nreports = b.nreports + 1,
                                         !.lastReport = Report(b.i, "activate", "error")])
            ELSE IF bb.tries = 0
            THEN NextIdentity([Stepped(bb, "activate", FALSE) EXCEPT !.act = "exhausted",
                                         !.nreports = b.nreports + 1,
                                         !.lastReport = Report(b.i, "activate", "exhausted")])
            ELSE IF r.ret = "True"
            THEN [Stepped(bb, "activate", TRUE) EXCEPT !.pc = "login", !.act = "activated"]
            ELSE bb
    /\ UNCHANGED <<gen, file, run, call, window>>

\* a loop without the "if not _continue: continue" after it: login follows whatever
\* way the polling ended
ActivateStep_falls_through(o) ==
    LET r == activate_account(o)
        bb == [b EXCEPT !.tries = b.tries - 1,
                        !.actLog = Append(b.actLog, o),
                        !.calls = [list |-> b.calls.list + r.list,
                                   fetch |-> b.calls.fetch + r.fetch,
                                   confirm |-> b.calls.confirm + r.confirm]]
    IN
    /\ b.pc = "activate"
    /\ b' = IF r.ret = "True"
            THEN [Stepped(bb, "activate", TRUE) EXCEPT !.pc = "login", !.act = "activated"]
            ELSE IF r.ret = "Exception"
            THEN [Stepped(bb, "activate", FALSE) EXCEPT !.pc = "login", !.act = "error",
                                         !.nreports = b.nreports + 1,
                                         !.lastReport = Report(b.i, "activate", "error")]
            ELSE IF bb.tries = 0
            THEN [Stepped(bb, "activate", FALSE) EXCEPT !.pc = "login", !.act = "exhausted",
                                         !.nreports = b.nreports + 1,
                                         !.lastReport = Report(b.i, "activate", "exhausted")]
            ELSE bb
    /\ UNCHANGED <<gen, file, run, call, window>>

\* a loop whose except branch does not break: an exception is one more failed try
ActivateStep_retry_on_error(o) ==
    LET r == activate_account(o)
        bb == [b EXCEPT !.tries = b.tries - 1,
                        !.actLog = Append(b.actLog, o),
                        !.calls = [list |-> b.calls.list + r.list,
                                   fetch |-> b.calls.fetch + r.fetch,
                                   confirm |-> b.calls.confirm + r.confirm]]
    IN
    /\ b.pc = "activate"
    /\ b' = IF r.ret = "True"
            THEN [Stepped(bb, "activate", TRUE) EXCEPT !.pc = "login", !.act = "activated"]
            ELSE IF bb.tries = 0
            THEN NextIdentity([Stepped(bb, "activate", FALSE) EXCEPT !.act = "exhausted",
                                         !.nreports = b.nreports + 1,
                                         !.lastReport = Report(b.i, "activate", "exhausted")])
            ELSE bb
    /\ UNCHANGED <<gen, file, run, call, window>>

\* one pass of the "while True" loop: tries -= 1, activate_account(), the checks after it
ActivateStep(o) ==
    LET r == activate_account(o)
        bb == [b EXCEPT !.tries = b.tries - 1,
                        !.actLog = Append(b.actLog, o),
                        !.calls = [list |-> b.calls.list + r.list,
                                   fetch |-> b.calls.fetch + r.fetch,
                                   confirm |-> b.calls.confirm + r.confirm]]
    IN
    /\ b.pc = "activate"
    /\ b' = IF r.ret = "True"
            THEN [Stepped(bb, "activate", TRUE) EXCEPT !.pc = "login", !.act = "activated"]
            ELSE IF r.ret = "Exception"
            THEN NextIdentity([Stepped(bb, "activate", FALSE) EXCEPT !.act = "error",
                                         !.nreports = b.nreports + 1,
                                         !.lastReport = Report(b.i, "activate", "error")])
            ELSE IF bb.tries = 0
            THEN NextIdentity([Stepped(bb, "activate", FALSE) EXCEPT !.act = "exhausted",
                                         !.nreports = b.nreports + 1,
                                         !.lastReport = Report(b.i, "activate", "exhausted")])
            ELSE bb
    /\ UNCHANGED <<gen, file, run, call, window>>

LoginOutcomes == {"true", "false", "http_error"}

\* a login step whose except branch goes on to the next identity without a message
LoginStep_silent_error(o) ==
    /\ b.pc = "login"
    /\ b' = IF o = "true" THEN [Stepped(b, "login", TRUE) EXCEPT !.pc = "token"]
            ELSE IF o = "false"
            THEN NextIdentity([Stepped(b, "login", FALSE) EXCEPT
                                         !.nreports = b.nreports + 1,
                                         !.lastReport = Report(b.i, "login", "failed")])
            ELSE NextIdentity(Stepped(b, "login", FALSE))
    /\ UNCHANGED <<gen, file, run, call, window>>

\* wpscan_account.login(): True, False, or an exception when the response is not ok
\* (building the message of that exception calls self.email.get_message() without
\* its argument, so what is raised is a TypeError; "except Exception" catches either)
LoginStep(o) ==
    /\ b.pc = "login"
    /\ b' = IF o = "true" THEN [Stepped(b, "login", TRUE) EXCEPT !.pc = "token"]
            ELSE IF o = "false"
            THEN NextIdentity([Stepped(b, "login", FALSE) EXCEPT
                                         !.nreports = b.nreports + 1,
                                         !.lastReport = Report(b.i, "login", "failed")])
            ELSE NextIdentity([Stepped(b, "login", FALSE) EXCEPT
                                         !.nreports = b.nreports + 1,
                                         !.lastReport = Report(b.i, "login", "error")])
    /\ UNCHANGED <<gen, file, run, call, window>>

TokenOutcomes == {"error", "empty", "token"}

\* accounts.insert(0, ...) in place of accounts.append(...)
TokenStep_prepend(o) ==
    /\ b.pc = "token"
    /\ b' = IF o = "error"
            THEN NextIdentity([Stepped(b, "token", FALSE) EXCEPT
                                        !.nreports = b.nreports + 1,
                                        !.lastReport = Report(b.i, "token", "error")])
            ELSE IF o = "empty"
            THEN NextIdentity([Stepped(b, "token", FALSE) EXCEPT !.token = 0,
                                        !.nreports = b.nreports + 1,
                                        !.lastReport = Report(b.i, "token", "failed")])
            ELSE NextIdentity([Stepped(b, "token", TRUE) EXCEPT !.token = b.usernames[b.i],
                                        !.accounts = <<Account(b.emails[b.i][1], b.emails[b.i][2],
                                                    b.passwords[b.i], b.usernames[b.i])>>
                                                     \o b.accounts])
    /\ UNCHANGED <<gen, file, run, call, window>>

\* a token step without the "continue" of its failure branches: accounts.append runs
\* with whatever the variable token holds
TokenStep_no_continue(o) ==
    /\ b.pc = "token"
    /\ b' = IF o = "error"
            THEN NextIdentity([Stepped(b, "token", FALSE) EXCEPT
                                        !.nreports = b.nreports + 1,
                                        !.lastReport = Report(b.i, "token", "error"),
                                        !.accounts = Append(b.accounts,
                                            Account(b.emails[b.i][1], b.emails[b.i][2],
                                                    b.passwords[b.i], b.token))])
            ELSE IF o = "empty"
            THEN NextIdentity([Stepped(b, "token", FALSE) EXCEPT !.token = 0,
                                        !.nreports = b.nreports + 1,
                                        !.lastReport = Report(b.i, "token", "failed"),
                                        !.accounts = Append(b.accounts,
                                            Account(b.emails[b.i][1], b.emails[b.i][2],
                                                    b.passwords[b.i], 0))])
            ELSE NextIdentity([Stepped(b, "token", TRUE) EXCEPT !.token = b.usernames[b.i],
                                        !.accounts = Append(b.accounts,
                                            Account(b.emails[b.i][1], b.emails[b.i][2],
                                                    b.passwords[b.i], b.usernames[b.i]))])
    /\ UNCHANGED <<gen, file, run, call, window>>

\* token = wpscan_account.get_token(): the profile request raises, the profile holds
\* no token, or it holds the token of this identity; then accounts.append
TokenStep(o) ==
    /\ b.pc = "token"
    /\ b' = IF o = "error"
            THEN NextIdentity([Stepped(b, "token", FALSE) EXCEPT
                                        !.nreports = b.nreports + 1,
                                        !.lastReport = Report(b.i, "token", "error")])
            ELSE IF o = "empty"
            THEN NextIdentity([Stepped(b, "token", FALSE) EXCEPT !.token = 0,
                                        !.nreports = b.nreports + 1,
                                        !.lastReport = Report(b.i, "token", "failed")])
            ELSE NextIdentity([Stepped(b, "token", TRUE) EXCEPT !.token = b.usernames[b.i],
                                        !.accounts = Append(b.accounts,
                                            Account(b.emails[b.i][1], b.emails[b.i][2],
                                                    b.passwords[b.i], b.usernames[b.i]))])
    /\ UNCHANGED <<gen, file, run, call, window>>

\* a main that saves the accounts already in the file followed by the new ones
BatchReturn_appending ==
    /\ b.pc = "return"
    /\ file' = IF b.accounts # <<>>
               THEN save_accounts(load_accounts(file).accounts \o b.accounts)
               ELSE file
    /\ window' = <<>>
    /\ call' = CallRec("create_accounts", file, RESET_INDEX, b.accounts, "none",
                       IF b.accounts # <<>> THEN "saved" ELSE "nothing_saved")
    /\ b' = BIdle
    /\ UNCHANGED <<gen, run>>

\* a main without "if accounts:": whatever was created is saved
BatchReturn_always_saves ==
    /\ b.pc = "return"
    /\ file' = save_accounts(b.accounts)
    /\ window' = <<>>
    /\ call' = CallRec("create_accounts", file, RESET_INDEX, b.accounts, "none",
                       IF b.accounts # <<>> THEN "saved" ELSE "nothing_saved")
    /\ b' = BIdle
    /\ UNCHANGED <<gen, run>>

\* return accounts; main saves them when there are any
BatchReturn ==
    /\ b.pc = "return"
    /\ file' = IF b.accounts # <<>> THEN save_accounts(b.accounts) ELSE file
    /\ window' = <<>>
    /\ call' = CallRec("create_accounts", file, RESET_INDEX, b.accounts, "none",
                       IF b.accounts # <<>> THEN "saved" ELSE "nothing_saved")
    /\ b' = BIdle
    /\ UNCHANGED <<gen, run>>

BatchStep ==
    \/ \E count \in 0..MaxCount :
         \E usernames \in UsernameLists(count), domains \in {<<>>, <<1>>} :
              BatchStart(count, usernames, domains)
    \/ \E ok \in BOOLEAN : RegisterStep(ok)
    \/ \E o \in ActOutcomes : ActivateStep(o)
    \/ \E o \in LoginOutcomes : LoginStep(o)
    \/ \E o \in TokenOutcomes : TokenStep(o)
    \/ BatchReturn

(* ---------------- get_random_email_usernames ---------------- *)
\* string.ascii_lowercase and string.digits
ascii_lowercase == {"a", "b", "c", "d", "e", "f", "g", "h", "i", "j", "k", "l", "m",
                    "n", "o", "p", "q", "r", "s", "t", "u", "v", "w", "x", "y", "z"}
digits == {"0", "1", "2", "3", "4", "5", "6", "7", "8", "9"}

\* the characters of string.ascii_lowercase + string.digits the model draws
Population == {"a", "0"}

\* no call of the generator
GenIdle == [pc |-> "idle", count |-> 0, min_length |-> 0, max_length |-> 0,
            usernames |-> {}, result |-> <<>>]

\* the arguments a call may get
GenInputs ==
    {[GenIdle EXCEPT !.pc = "loop", !.count = c, !.min_length = lo, !.max_length = hi] :
        c \in (0 - 1)..MaxCount, lo \in (0 - MaxBelow)..MaxLen, hi \in (0 - MaxBelow)..MaxLen}

\* random.choices(population, k=length) with one character too many
choices_one_more(length) ==
    IF length + 1 <= 0 THEN {<<>>} ELSE [1..(length + 1) -> Population]

\* ''.join(random.choices(population, k=length)): the strings it can give; for
\* length <= 0 nothing is drawn and the string is empty
choices(length) ==
    IF length <= 0 THEN {<<>>} ELSE [1..length -> Population]

\* one pass of "while len(usernames) < count": random.randint raises ValueError for
\* an empty range, else a string of the drawn length is added to the set
GenLoopStep(length, username) ==
    /\ gen.pc = "loop"
    /\ Cardinality(gen.usernames) < gen.count
    /\ IF gen.min_length > gen.max_length
       THEN gen' = [gen EXCEPT !.pc = "ValueError"]
       ELSE /\ length \in gen.min_length..gen.max_length
            /\ username \in choices(length)
            /\ gen' = [gen EXCEPT !.usernames = gen.usernames \cup {username}]
    /\ UNCHANGED <<file, run, b, call, window>>

\* the orders list(usernames) may have
ListsOf(S) ==
    {s \in [1..Cardinality(S) -> S] : \A x, y \in 1..Cardinality(S) : x # y => s[x] # s[y]}

\* the loop condition is false: return list(usernames)
GenReturn(order) ==
    /\ gen.pc = "loop"
    /\ ~(Cardinality(gen.usernames) < gen.count)
    /\ order \in ListsOf(gen.usernames)
    /\ gen' = [gen EXCEPT !.pc = "returned", !.result = order]
    /\ UNCHANGED <<file, run, b, call, window>>

GenStep ==
    \/ \E length \in (0 - MaxBelow)..MaxLen :
         \E username \in choices(length) : GenLoopStep(length, username)
    \/ \E order \in ListsOf(gen.usernames) : GenReturn(order)

(* ---------------- specifications ---------------- *)
\* the program: no accounts file yet, then create-account and scan invocations,
\* one at a time
Init ==
    /\ file = MissingFile
    /\ run = [p \in Procs |-> RunIdle]
    /\ b = BIdle
    /\ call = NoCall
    /\ window = <<>>
    /\ gen = GenIdle

Next == BatchStep \/ \E p \in Procs : RunStep(p)

Spec == Init /\ [][Next]_vars

\* the store functions and the rotation on any file content
InitStore ==
    /\ file \in FileInputs
    /\ run = [p \in Procs |-> RunIdle]
    /\ b = BIdle
    /\ call = NoCall
    /\ window = <<>>
    /\ gen = GenIdle

NextStore == StoreCall \/ \E p \in Procs : RunStep(p)

SpecStore == InitStore /\ [][NextStore]_vars

\* the stores a provisioning run and rotation invocations leave behind
WrittenStores ==
    {FileWith(json_dumps(PyDict(<<"index", "accounts">>, i, SampleList(k)))) :
        i \in (0 - 1)..(MaxAccounts - 1), k \in 1..MaxAccounts}

\* rotation invocations started by separate processes at any time: an invocation
\* may begin while another one is between its load and its return
InitRace ==
    /\ file \in {f \in WrittenStores :
                   load_accounts(f).index < Len(load_accounts(f).accounts)}
    /\ run = [p \in Procs |-> RunIdle]
    /\ b = BIdle
    /\ call = NoCall
    /\ window = <<>>
    /\ gen = GenIdle

\* the two processes whose invocations may overlap
RacePair == {1, 2}

\* one step of an invocation of process p; the tool ends normally
RunStepRace(p) ==
    \/ RunLoadStep(p)
    \/ RunSaveReadStep(p)
    \/ RunSaveOpenStep(p)
    \/ RunSaveDumpStep(p)
    \/ RunToolStep(p, "exit_zero")

NextRace == \E p \in RacePair : RunStepRace(p)

SpecRace == InitRace /\ [][NextRace]_vars

\* get_random_email_usernames called with any arguments
InitGen ==
    /\ file = MissingFile
    /\ run = [p \in Procs |-> RunIdle]
    /\ b = BIdle
    /\ call = NoCall
    /\ window = <<>>
    /\ gen \in GenInputs

NextGen == GenStep

SpecGen == InitGen /\ [][NextGen]_vars

(* ---------------- properties of the rotation ---------------- *)
Quiet == RunsIdle /\ b.pc = "idle"

PersistedIndex == load_accounts(file).index
PersistedAccounts == load_accounts(file).accounts

\* the last k invocations of the window, k the number of accounts
LastRound == SubSeq(window, Len(window) - window[Len(window)].k + 1, Len(window))
RoundDone == Quiet /\ window # <<>> /\ Len(window) >= window[Len(window)].k

\* every position of 0..k-1 is selected by one of the k invocations of the round,
\* and each selected account is the one at that position
RoundVisitsAll ==
    /\ {LastRound[x].sel : x \in 1..Len(LastRound)} = 0..(Len(LastRound) - 1)
    /\ \A x \in 1..Len(LastRound) :
          LastRound[x].account = PersistedAccounts[LastRound[x].sel + 1]

\* C1 as stated: after k consecutive rotation invocations on a store of k accounts
\* that started at an index i in [-1, k-1], every account has been selected exactly
\* once and the persisted index is i again.
C1_RoundReturnsToStart ==
    (RoundDone /\ LastRound[1].before \in -1..(Len(LastRound) - 1))
        => (RoundVisitsAll /\ PersistedIndex = LastRound[1].before)

\* C1 amended: after k consecutive rotation invocations on a store of k accounts that
\* started at an index i in [-1, k-1], every account has been selected exactly once;
\* the persisted index is i again when i >= 0 and is k-1 when i = -1.
C1_RoundRobin ==
    (RoundDone /\ LastRound[1].before \in -1..(Len(LastRound) - 1))
        => /\ RoundVisitsAll
           /\ PersistedIndex = IF LastRound[1].before >= 0 THEN LastRound[1].before
                               ELSE Len(LastRound) - 1

C1_Witness ==
    /\ RoundDone
    /\ Len(LastRound) = 3
    /\ LastRound[1].before = -1
    /\ PersistedIndex = 2

\* C2: once an invocation has saved its index, the position it selected is
\* (c + 1) mod k for the index c it loaded, whatever integer c is; that position is in
\* [0, k-1], the account used is the one at that position, and the persisted index
\* is that position.
C2_SelectsSuccessor ==
    \A p \in Procs :
        run[p].pc = "tool" =>
            LET k == Len(run[p].accounts)
                c == run[p].current_index
                n == run[p].next_index
            IN /\ k >= 1
               /\ n \in 0..(k - 1)
               /\ \E q \in (0 - MaxBelow - 1)..(MaxIdx + 1) : c + 1 = q * k + n
               /\ run[p].account = run[p].accounts[n + 1]
               /\ PersistedIndex = n
               /\ PersistedAccounts = run[p].accounts

C2_Witness ==
    \E p \in Procs :
        /\ run[p].pc = "tool"
        /\ run[p].current_index < -1
        /\ Len(run[p].accounts) >= 2
        /\ run[p].next_index > 0

\* C3: when the external tool is about to be invoked the new index is already in the
\* file, and whatever the tool did, the next invocation loads the index the previous
\* one selected and selects the position after it; after an invocation the file
\* holds the index it selected.
C3_AdvanceKept ==
    /\ \A p \in Procs : run[p].pc = "tool" => PersistedIndex = run[p].next_index
    /\ \A x \in 2..Len(window) :
          /\ window[x].before = window[x - 1].sel
          /\ window[x].sel = (window[x - 1].sel + 1) % window[x].k
    /\ (Quiet /\ window # <<>>) => PersistedIndex = window[Len(window)].sel

C3_Witness ==
    /\ Quiet
    /\ Len(window) >= 2
    /\ window[Len(window) - 1].tool = "exception"
    /\ window[Len(window)].before # window[Len(window)].sel

\* the file holds a store object with both keys
WellFormedStore(f) ==
    /\ f.exists
    /\ json_load(f.content).ok
    /\ json_load(f.content).val.ty = "dict"
    /\ HasKey(json_load(f.content).val, "index")
    /\ HasKey(json_load(f.content).val, "accounts")

\* C4: between invocations, a store written by a provisioning run and then only
\* touched by provisioning saves and rotation invocations holds an index in
\* [-1, len(accounts) - 1].
C4_IndexInRange ==
    (Quiet /\ file.exists) =>
        /\ WellFormedStore(file)
        /\ PersistedIndex \in -1..(Len(PersistedAccounts) - 1)

C4_Witness ==
    /\ Quiet
    /\ window # <<>>
    /\ Len(PersistedAccounts) >= 2
    /\ PersistedIndex = Len(PersistedAccounts) - 1

(* ---------------- properties of the store functions ---------------- *)
\* C5: right after save_accounts the file is the document {"index": -1, "accounts":
\* the given accounts} and nothing else, whatever the file held before.
C5_SaveResets ==
    call.op = "save_accounts" =>
        /\ json_load(file.content) = Parsed(PyDict(<<"index", "accounts">>, -1, call.accounts))
        /\ load_accounts(file) = LoadResult("none", call.accounts, -1)

C5_Witness ==
    /\ call.op = "save_accounts"
    /\ WellFormedStore(call.before)
    /\ load_accounts(call.before).index > 0
    /\ load_accounts(call.before).accounts # call.accounts

\* the file is missing, is not JSON, or is JSON that is not an object
NotAStore(f) ==
    \/ ~f.exists
    \/ ~json_load(f.content).ok
    \/ json_load(f.content).val.ty # "dict"

\* C6: load_accounts raises nothing, and on a missing file or a content that is
\* not a store object it returns ([], -1).
C6_LoadNeverRaises ==
    call.op = "load_accounts" =>
        /\ call.raised = "none"
        /\ NotAStore(call.before) => (call.accounts = <<>> /\ call.index = -1)

\* C7: save_account_index(j) on a well-formed store raises nothing, and a load after
\* it returns j and the accounts a load returned before it.
C7_IndexRoundTrip ==
    (call.op = "save_account_index" /\ WellFormedStore(call.before)) =>
        /\ call.raised = "none"
        /\ load_accounts(file) =
              LoadResult("none", load_accounts(call.before).accounts, call.index)

C7_Witness ==
    /\ call.op = "save_account_index"
    /\ WellFormedStore(call.before)
    /\ Len(load_accounts(call.before).accounts) >= 2
    /\ call.index # load_accounts(call.before).index
    /\ PersistedIndex = call.index

(* ---------------- properties of the activation polling ---------------- *)
AllAre(s, o) == \A x \in 1..Len(s) : s[x] = o
Front(s) == SubSeq(s, 1, Len(s) - 1)
ActEnded == b.act \in {"activated", "exhausted", "error"}
LastReport == b.lastReport
ConfirmAttempts ==
    {x \in 1..Len(b.actLog) :
        b.actLog[x] \in {"confirm_http_error", "confirm_false", "confirm_true"}}

\* C8: while the inbox has shown no matching message the polling goes on as long as
\* fewer than 5 attempts were made; m < 5 attempts without a message followed by an
\* attempt whose token is confirmed end in Activated; only attempts without a message
\* end in Failed after exactly 5 attempts, reported as budget exhaustion and not as
\* an error.
C8_PollingBudget ==
    /\ (b.act = "polling" /\ AllAre(b.actLog, "no_message"))
          => (b.pc = "activate" /\ Len(b.actLog) < INITIAL_TRIES)
    /\ (ActEnded /\ AllAre(Front(b.actLog), "no_message")
                 /\ b.actLog[Len(b.actLog)] = "confirm_true")
          => (b.act = "activated" /\ Len(b.actLog) <= INITIAL_TRIES)
    /\ (ActEnded /\ AllAre(b.actLog, "no_message"))
          => /\ b.act = "exhausted"
             /\ Len(b.actLog) = INITIAL_TRIES
             /\ b.calls.list = INITIAL_TRIES
             /\ LastReport.step = "activate"
             /\ LastReport.kind = "exhausted"
    /\ (b.act = "error") => LastReport.kind = "error"

C8_Witness ==
    /\ b.act = "activated"
    /\ Len(b.actLog) = INITIAL_TRIES
    /\ AllAre(Front(b.actLog), "no_message")

\* C9: an attempt that finds a message without the activation link is the last
\* attempt of the identity: the activation has failed with an error, the loop is
\* left, the inbox was listed once per attempt and never again, no confirm call was
\* made for that message, and the attempts that remained are not used.
C9_NoLinkIsFinal ==
    \A x \in 1..Len(b.actLog) :
        b.actLog[x] = "no_link" =>
            /\ x = Len(b.actLog)
            /\ b.act = "error"
            /\ b.pc # "activate"
            /\ LastReport.step = "activate"
            /\ LastReport.kind = "error"
            /\ b.calls.list = Len(b.actLog)
            /\ b.calls.confirm = Cardinality(ConfirmAttempts)
            /\ b.tries = INITIAL_TRIES - Len(b.actLog)

C9_Witness ==
    /\ Len(b.actLog) = 2
    /\ b.actLog[2] = "no_link"
    /\ b.act = "error"
    /\ b.tries = INITIAL_TRIES - 2

\* C10: each "success: false" answer of the confirm call uses one attempt and the
\* polling goes on; m < 5 such answers followed by a success end in Activated; only
\* such answers end in Failed by budget exhaustion after exactly 5 attempts.
C10_ConfirmFalseRetried ==
    /\ (b.act = "polling" /\ AllAre(b.actLog, "confirm_false"))
          => /\ b.pc = "activate"
             /\ b.tries = INITIAL_TRIES - Len(b.actLog)
             /\ Len(b.actLog) < INITIAL_TRIES
    /\ (ActEnded /\ Len(b.actLog) >= 2 /\ AllAre(Front(b.actLog), "confirm_false")
                 /\ b.actLog[Len(b.actLog)] = "confirm_true")
          => b.act = "activated"
    /\ (ActEnded /\ AllAre(b.actLog, "confirm_false"))
          => /\ b.act = "exhausted"
             /\ Len(b.actLog) = INITIAL_TRIES
             /\ b.calls.confirm = INITIAL_TRIES
             /\ LastReport.step = "activate"
             /\ LastReport.kind = "exhausted"

C10_Witness ==
    /\ b.act = "exhausted"
    /\ b.actLog # <<>>
    /\ AllAre(b.actLog, "confirm_false")

(* ---------------- properties of the batch ---------------- *)
InBatch == b.pc \in {"register", "activate", "login", "token", "return"}

\* the account create_accounts builds for identity j
AccountOf(j) ==
    Account(b.emails[j][1], b.emails[j][2], b.passwords[j], b.usernames[j])

\* the identities whose four steps all succeeded, in input order
OkInOrder == SelectSeq([x \in 1..b.count |-> x], LAMBDA x : x \in b.okIds)

C12_BatchNeverAborts ==
    call.op = "create_accounts" =>
        /\ call.raised = "none"
        /\ call.out \in {"saved", "nothing_saved"}

\* C13: for one identity the steps happen only in the order register, activation
\* polling, login, token retrieval: a step is entered only when every step before it
\* ended well, so login follows only a successful activation, token retrieval only a
\* successful login, and nothing follows a failed step.
C13_StepsInOrder ==
    InBatch =>
        /\ Len(b.steps) <= Len(StepNames)
        /\ \A x \in 1..Len(b.steps) : b.steps[x].step = StepNames[x]
        /\ \A x \in 1..(Len(b.steps) - 1) : b.steps[x].ok
        /\ b.pc = "login" => (b.act = "activated" /\ Len(b.steps) = 2)
        /\ b.pc = "token" => (b.act = "activated" /\ Len(b.steps) = 3)

C13_Witness ==
    /\ b.pc = "return"
    /\ Len(b.steps) = 3
    /\ b.steps[2].ok
    /\ ~b.steps[3].ok

\* C14: an account is in the list only for an identity that went through all four
\* steps, and it carries that identity's own address and password and the non-empty
\* credential fetched for that identity; an identity whose token retrieval raised or
\* gave no credential is reported as failed at the token step and has no account.
C14_AccountOnlyOnSuccess ==
    InBatch =>
        /\ \A x \in 1..Len(b.accounts) :
              \E j \in b.okIds :
                  /\ b.accounts[x].email = b.emails[j]
                  /\ b.accounts[x].password = b.passwords[j]
                  /\ b.accounts[x].api = b.usernames[j]
                  /\ b.accounts[x].api # 0
        /\ b.lastReport.step = "token" =>
              /\ b.lastReport.num \notin b.okIds
              /\ \A x \in 1..Len(b.accounts) :
                    b.accounts[x].email # b.emails[b.lastReport.num]

C14_Witness ==
    /\ b.pc = "return"
    /\ b.okIds = {1}
    /\ b.lastReport = Report(2, "token", "failed")
    /\ b.token = 0
    /\ Len(b.accounts) = 1

\* the identities create_accounts is done with
Finished == IF b.pc = "return" THEN b.count ELSE b.i - 1

\* C15: every identity that failed is reported exactly once, and the report names the
\* step that failed: the number of failure reports is the number of finished
\* identities that were not successful, and the last report carries the step whose
\* call failed, also when login or the profile request raised.
C15_FailureReportedOnce ==
    InBatch =>
        /\ b.nreports = Finished - Cardinality(b.okIds)
        /\ (b.steps # <<>> /\ ~b.steps[Len(b.steps)].ok) =>
              /\ b.lastReport.step = b.steps[Len(b.steps)].step
              /\ b.lastReport.num = Finished
        /\ b.lastReport # NoReport =>
              /\ b.steps # <<>>
              /\ ~b.steps[Len(b.steps)].ok

C15_Witness ==
    /\ b.pc = "return"
    /\ b.count = 2
    /\ b.nreports = 2
    /\ b.lastReport = Report(2, "login", "error")

(* ---------------- properties of the store file ---------------- *)
\* C16: the index advance is atomic: at every point of a rotation invocation that has
\* selected its account, also in the middle of save_account_index, what the file
\* holds (what a process stopped there leaves behind, what another invocation would
\* load) is the accounts the invocation loaded with the old or the new index, never
\* an empty or partial store.
C16_AdvanceAtomic ==
    \A p \in Procs :
        run[p].pc \in {"save_read", "save_open", "save_dump", "tool"} =>
            /\ WellFormedStore(file)
            /\ PersistedAccounts = run[p].accounts
            /\ PersistedIndex \in {run[p].current_index, run[p].next_index}

\* the members of a list
Members(s) == {s[x] : x \in 1..Len(s)}

\* after consecutive rotation invocations the file still holds the accounts each of
\* them worked with: as many as each loaded, and each selected account at its place
RotationKeepsAccounts ==
    (Quiet /\ window # <<>>) =>
        /\ call.op = "run_wpscan_command" => PersistedAccounts = call.accounts
        /\ \A x \in 1..Len(window) :
              /\ window[x].k = Len(PersistedAccounts)
              /\ window[x].account = PersistedAccounts[window[x].sel + 1]

\* C17 as stated: accounts are only appended to the store, never changed or removed:
\* after provisioning runs that save to the store and rotation invocations on it,
\* every account that was in the file before is still there, unchanged.
C17_AppendOnly ==
    /\ RotationKeepsAccounts
    /\ (call.op = "create_accounts" /\ call.raised = "none") =>
          Members(load_accounts(call.before).accounts) \subseteq Members(PersistedAccounts)

\* C17 amended: rotation invocations never change or remove an account; a
\* provisioning run that created at least one account replaces the content of the
\* store by exactly the accounts of that run (accounts saved earlier are not kept),
\* and a run that created none leaves the accounts in the file as they were.
C17_RotationKeepsSaveReplaces ==
    /\ RotationKeepsAccounts
    /\ (call.op = "create_accounts" /\ call.out = "saved") =>
          PersistedAccounts = call.accounts
    /\ (call.op = "create_accounts" /\ call.out = "nothing_saved") =>
          PersistedAccounts = load_accounts(call.before).accounts

C17_Witness ==
    /\ call.op = "create_accounts"
    /\ call.out = "saved"
    /\ load_accounts(call.before).accounts # <<>>
    /\ ~(Members(load_accounts(call.before).accounts) \subseteq Members(PersistedAccounts))

\* the file holds a store object without accounts
EmptyStore(f) ==
    /\ ~NotAStore(f)
    /\ GetAccounts(json_load(f.content).val) = <<>>

\* C18: a rotation invocation that finds the store missing, malformed or empty reports
\* that there are no accounts and returns: it raises nothing, does not start the
\* external tool, and leaves the file as it was (not written, not created).
C18_NoAccountsReported ==
    (call.op = "run_wpscan_command" /\ (NotAStore(call.before) \/ EmptyStore(call.before))) =>
        /\ call.raised = "none"
        /\ call.out = "no_accounts"
        /\ file = call.before

\* C19: save_account_index on a missing file or on a file whose content is not a store
\* object is a silent no-op: it raises nothing, does not create the file and leaves
\* the content as it was.
C19_SaveIndexSilentNoOp ==
    (call.op = "save_account_index" /\ NotAStore(call.before)) =>
        /\ call.raised = "none"
        /\ file = call.before

(* ---------------- properties of the username generator ---------------- *)
\* the list returned holds count pairwise distinct strings, each of a length within
\* the bounds and made of lowercase letters and digits only
GenResultAsAsked ==
    /\ Len(gen.result) = gen.count
    /\ \A x, y \in 1..Len(gen.result) : x # y => gen.result[x] # gen.result[y]
    /\ \A x \in 1..Len(gen.result) :
          /\ Len(gen.result[x]) \in gen.min_length..gen.max_length
          /\ \A c \in 1..Len(gen.result[x]) :
                gen.result[x][c] \in ascii_lowercase \cup digits

Drawable ==
    UNION {choices(length) : length \in gen.min_length..gen.max_length}

\* the loop condition holds and no pass can add a string: every pass from here
\* leaves the set as it is, so the loop condition stays true for ever
LoopsForever ==
    /\ gen.pc = "loop"
    /\ gen.min_length <= gen.max_length
    /\ Cardinality(gen.usernames) < gen.count
    /\ Drawable \subseteq gen.usernames

\* C21: get_random_email_usernames always terminates: when the bounds cannot give
\* count distinct strings it stops with an error, so the call is never left in its
\* loop with every string the bounds allow already drawn and the count not reached.
C21_GeneratorStops == ~LoopsForever

(* ---------------- properties of overlapping rotation invocations ---------------- *)
\* C22: of two rotation invocations that end one after the other, each run with no
\* other invocation in progress, the second selects the position after the one the
\* first selected. Two invocations that overlap can both load the same index, select
\* the same account and leave the index one position past where it started (the
\* witness below).
C22_NonOverlappingAdvance ==
    \A x \in 2..Len(window) :
        (~window[x - 1].overlap /\ ~window[x].overlap) =>
            /\ window[x].before = window[x - 1].sel
            /\ window[x].sel = (window[x - 1].sel + 1) % window[x].k
            /\ (window[x].k >= 2 => window[x].account # window[x - 1].account)

C22_Witness ==
    /\ RunsIdle
    /\ Len(window) = 2
    /\ window[1].overlap /\ window[2].overlap
    /\ window[1].k >= 2
    /\ window[1].before = window[2].before
    /\ window[1].sel = window[2].sel
    /\ window[1].account = window[2].account
    /\ PersistedIndex = (window[1].before + 1) % window[1].k

(* ---------------- transport errors while polling ---------------- *)
TransportErrors == {"list_error", "fetch_error", "confirm_http_error"}

\* C23: an attempt in which listing the inbox, fetching the message or the confirm
\* call fails with a transport error is the last attempt of the identity, whatever
\* budget remains: the polling has ended as an error and not as budget exhaustion,
\* also when the error came on the fifth attempt, the attempts that remained are not
\* used, and no call follows the one that failed.
C23_TransportErrorIsFinal ==
    \A x \in 1..Len(b.actLog) :
        b.actLog[x] \in TransportErrors =>
            /\ x = Len(b.actLog)
            /\ b.act = "error"
            /\ b.pc \in {"register", "return"}
            /\ b.lastReport.step = "activate"
            /\ b.lastReport.kind = "error"
            /\ b.tries = INITIAL_TRIES - x
            /\ b.calls.list = x
            /\ b.actLog[x] = "list_error" => b.calls.fetch = Cardinality(
                   {y \in 1..(x - 1) : b.actLog[y] # "no_message"})
            /\ b.actLog[x] = "fetch_error" => b.calls.confirm = Cardinality(ConfirmAttempts)
            /\ b.steps = <<[step |-> "register", ok |-> TRUE],
                           [step |-> "activate", ok |-> FALSE]>>

C23_Witness ==
    /\ b.actLog = <<"confirm_false", "confirm_http_error">>
    /\ b.act = "error"
    /\ b.tries = INITIAL_TRIES - 2
    /\ b.lastReport.kind = "error"

(* ---------------- the store and a provisioning run without accounts ------------- *)
\* C24: a provisioning run writes the store only when it created at least one
\* account: no step of the run changes the file except its end with a non-empty
\* list, which writes exactly those accounts with index -1; a run that created no
\* account leaves the file, its accounts and its index, as it found it.
C24_NoAccountNoWrite ==
    [][(b' # b /\ file' # file) =>
          /\ b.pc = "return"
          /\ b.accounts # <<>>
          /\ file' = FileWith(json_dumps(PyDict(<<"index", "accounts">>, RESET_INDEX,
                                                 b.accounts)))]_vars

C24_Witness ==
    /\ call.op = "create_accounts"
    /\ call.out = "nothing_saved"
    /\ call.before.exists
    /\ file = call.before
    /\ PersistedIndex >= 0
    /\ PersistedAccounts # <<>>
====
